---- MODULE Spec2Model ----
(***************************************************************************)
(* The kubernetes_job_v1 resource (resource_kubernetes_job_v1.go): the      *)
(* CustomizeDiff rule for ttl_seconds_after_finished, the completion        *)
(* poller, and Create / Read / Update / Delete against one remote Job.      *)
(*                                                                          *)
(* A handler is cut into steps at its remote calls, so that the remote      *)
(* store may delete the Job between two calls of one handler.  Each step    *)
(* is the remote call together with all the local code that follows it up   *)
(* to the next remote call or the return.                                   *)
(***************************************************************************)
EXTENDS Integers, Sequences, FiniteSets, TLC

\* ------------------------------------------------------------------ bounds

\* Most fetches one wait (completion poller, delete confirmation) makes
\* before its deadline must have passed.
MaxPolls == 3

\* Longest condition list a fetched Job carries.
MaxConds == 2

\* ------------------------------------------------------------------ values

\* A string is a sequence of one-character strings.
DigitChars == <<"0", "1", "2", "3", "4", "5", "6", "7", "8", "9">>

IsDigit(c) == \E i \in 1..10 : DigitChars[i] = c

DigitVal(c) == (CHOOSE i \in 1..10 : DigitChars[i] = c) - 1

RECURSIVE DigitsValue(_)
DigitsValue(s) ==
    IF s = <<>> THEN 0
    ELSE DigitsValue(SubSeq(s, 1, Len(s) - 1)) * 10 + DigitVal(s[Len(s)])

\* strconv.Atoi: an optional sign, then one or more decimal digits.
Atoi(s) ==
    LET signed == s /= <<>> /\ s[1] \in {"+", "-"}
        digits == IF signed THEN Tail(s) ELSE s
        ok     == digits /= <<>> /\ \A i \in 1..Len(digits) : IsDigit(digits[i])
    IN  IF ~ok THEN [err |-> TRUE, val |-> 0]
        ELSE [err |-> FALSE,
              val |-> IF signed /\ s[1] = "-" THEN 0 - DigitsValue(digits)
                      ELSE DigitsValue(digits)]

\* Variant: a value that does not parse counts as negative.
TTLInt_ErrIsNegative(s) == IF Atoi(s).err THEN 0 - 1 ELSE Atoi(s).val

\* oldTTLInt / newTTLInt / ttlInt: the parsed value, 0 when parsing fails.
TTLInt(s) == IF Atoi(s).err THEN 0 ELSE Atoi(s).val

RECURSIVE NatDigits(_)
NatDigits(n) ==
    IF n < 10 THEN <<DigitChars[n + 1]>>
    ELSE Append(NatDigits(n \div 10), DigitChars[(n % 10) + 1])

\* strconv.Itoa
Itoa(n) == IF n < 0 THEN <<"-">> \o NatDigits(0 - n) ELSE NatDigits(n)

\* Values of spec.0.ttl_seconds_after_finished in configuration and state:
\* absent, "0", "30", "-1" and an unparseable one.
TTLStrings == {<<>>, <<"0">>, <<"3", "0">>, <<"-", "1">>, <<"a">>}

\* ttlSecondsAfterFinished of a fetched Job, a pointer: nil or a duration.
NoTTL == <<>>
JobTTLs == {NoTTL, <<0>>, <<30>>}

\* flattenJobV1Spec, the expiry field: unset stays absent, else the decimal string.
FlattenTTL(t) == IF t = NoTTL THEN <<>> ELSE Itoa(t[1])

\* schema GetOk on a TypeString: ok iff the value is not the zero value "".
GetOk(s) == s /= <<>>

\* Identifiers: the token sequence namespace, separator, name.
IdSep == ","
Namespace == "default"
JobName == "job"
NoId == <<>>

\* buildId(out.ObjectMeta)
buildId(ns, name) == <<ns, IdSep, name>>

JobId == buildId(Namespace, JobName)

\* idParts: fails unless the identifier splits into exactly two parts.
idParts(s) ==
    LET seps == {i \in 1..Len(s) : s[i] = IdSep}
    IN  IF Cardinality(seps) = 1 /\ Len(s) = 3 /\ s[2] = IdSep
        THEN [err |-> FALSE, namespace |-> s[1], name |-> s[3]]
        ELSE [err |-> TRUE, namespace |-> "", name |-> ""]

\* Identifiers an import may record (ImportStatePassthroughContext).
ImportIds == {JobId, <<"badtoken">>}

\* Job conditions.
CondTypes == {"Complete", "Failed", "Suspended"}
CondStatuses == {"True", "False"}
Conds == [type : CondTypes, status : CondStatuses]

\* The condition lists of a fetched Job: at most one condition of a type.
CondLists ==
    {cs \in UNION {[1..n -> Conds] : n \in 0..MaxConds} :
        \A i, j \in 1..Len(cs) : cs[i].type = cs[j].type => i = j}

\* What a Get answers: the object (with its conditions and expiry), the
\* typed "not found" error, or another API error.
NotFoundAnswer == [kind |-> "notfound", conds |-> <<>>]
ErrorAnswer == [kind |-> "apierr", conds |-> <<>>]
NoAnswer == [kind |-> "none", conds |-> <<>>]
ObjectAnswers == {[kind |-> "obj", conds |-> cs] : cs \in CondLists}

\* One entry of the log of remote calls: the verb and the kind of answer.
Call(verb, kind) == [call |-> verb, ans |-> kind]

VARIABLES
    jobExists,    \* remote store: the Job object is present
    id,           \* d.Id()
    stateTTL,     \* spec.0.ttl_seconds_after_finished held by the resource data
    configTTL,    \* spec.0.ttl_seconds_after_finished of the configuration
    wait,         \* wait_for_completion
    forceNew,     \* keys the diff rule marked ForceNew
    cleared,      \* keys the diff rule cleared
    pc,           \* position of the running handler, "idle" between handlers
    op,           \* the handler last entered
    result,       \* what the handler last returned
    calls,        \* remote calls of the handler last entered, in order
    attempts,     \* fetches of the current wait
    lastGet,      \* answer to the last fetch of the current wait
    pollOutcome,  \* how the last wait ended
    id0,          \* d.Id() when the handler was entered
    ttl0,         \* the resource data's expiry value when the handler was entered
    cycle         \* progress of a create / self-expiry / refresh / plan cycle,
                  \* or of a run of deletes of an absent object

vars == <<jobExists, id, stateTTL, configTTL, wait, forceNew, cleared, pc, op,
          result, calls, attempts, lastGet, pollOutcome, id0, ttl0, cycle>>

remoteVars == <<jobExists>>
dataVars == <<id, stateTTL>>
configVars == <<configTTL, wait>>
diffVars == <<forceNew, cleared>>
waitVars == <<attempts, lastGet, pollOutcome>>
entryVars == <<id0, ttl0>>

\* The answers the store can give to a Get just now.
GetAnswers == (IF jobExists THEN ObjectAnswers ELSE {NotFoundAnswer}) \cup {ErrorAnswer}

\* The same for a caller that does not look at the conditions of the object.
PlainAnswers == {a \in GetAnswers : a.conds = <<>>}

Init ==
    /\ jobExists = FALSE
    /\ id = NoId
    /\ stateTTL = <<>>
    /\ configTTL = <<>>
    /\ wait = TRUE
    /\ forceNew = {}
    /\ cleared = {}
    /\ pc = "idle"
    /\ op = "none"
    /\ result = "none"
    /\ calls = <<>>
    /\ attempts = 0
    /\ lastGet = NoAnswer
    /\ pollOutcome = "none"
    /\ id0 = NoId
    /\ ttl0 = <<>>
    /\ cycle = "none"

\* The framework enters a handler: the logs of the previous one are dropped.
Enter(handler, at) ==
    /\ pc' = at
    /\ op' = handler
    /\ result' = "running"
    /\ calls' = <<>>
    /\ attempts' = 0
    /\ lastGet' = NoAnswer
    /\ pollOutcome' = "none"
    /\ forceNew' = {}
    /\ cleared' = {}
    /\ id0' = id

\* The handler returns res.
Return(res) ==
    /\ pc' = "idle"
    /\ result' = res

\* ------------------------------------------------- CustomizeDiff (54-124)

TTLField == "spec.0.ttl_seconds_after_finished"

\* Variant: the unchanged branch clears only "spec".
DiffOnNotFound_ClearsSpecOnly(oldTTLInt, newTTLInt) ==
    IF oldTTLInt >= 0
    THEN IF oldTTLInt /= newTTLInt
         THEN [forceNew |-> {TTLField}, cleared |-> {}, result |-> "ok"]
         ELSE [forceNew |-> {}, cleared |-> {"spec"}, result |-> "ok"]
    ELSE [forceNew |-> {}, cleared |-> {}, result |-> "ok"]

\* Variant: only a raised value counts as a change.
DiffOnNotFound_OnlyRaised(oldTTLInt, newTTLInt) ==
    IF oldTTLInt >= 0
    THEN IF oldTTLInt < newTTLInt
         THEN [forceNew |-> {TTLField}, cleared |-> {}, result |-> "ok"]
         ELSE [forceNew |-> {}, cleared |-> {"spec", "metadata"}, result |-> "ok"]
    ELSE [forceNew |-> {}, cleared |-> {}, result |-> "ok"]

\* Variant: the guard on the old value is strict.
DiffOnNotFound_StrictGuard(oldTTLInt, newTTLInt) ==
    IF oldTTLInt > 0
    THEN IF oldTTLInt /= newTTLInt
         THEN [forceNew |-> {TTLField}, cleared |-> {}, result |-> "ok"]
         ELSE [forceNew |-> {}, cleared |-> {"spec", "metadata"}, result |-> "ok"]
    ELSE [forceNew |-> {}, cleared |-> {}, result |-> "ok"]

\* The branches of the rule after the lookup (93-121): the keys it forces, the
\* keys it clears and the error it returns.
DiffOnNotFound(oldTTLInt, newTTLInt) ==
    IF oldTTLInt >= 0
    THEN IF oldTTLInt /= newTTLInt
         THEN [forceNew |-> {TTLField}, cleared |-> {}, result |-> "ok"]
         ELSE [forceNew |-> {}, cleared |-> {"spec", "metadata"}, result |-> "ok"]
    ELSE [forceNew |-> {}, cleared |-> {}, result |-> "ok"]

\* Variant: the found branch suppresses the diff as the not-found branch does.
DiffOnFound_Suppresses(oldTTLInt, newTTLInt) ==
    IF oldTTLInt /= newTTLInt
    THEN [forceNew |-> {TTLField}, cleared |-> {}, result |-> "ok"]
    ELSE [forceNew |-> {}, cleared |-> {"spec", "metadata"}, result |-> "ok"]

DiffOnFound(oldTTLInt, newTTLInt) ==
    IF oldTTLInt /= newTTLInt
    THEN [forceNew |-> {TTLField}, cleared |-> {}, result |-> "ok"]
    ELSE [forceNew |-> {}, cleared |-> {}, result |-> "ok"]

DiffNothing(res) == [forceNew |-> {}, cleared |-> {}, result |-> res]

DiffDecision(oldTTLStr, newTTLStr, answer) ==
    LET oldTTLInt == TTLInt(oldTTLStr)
        newTTLInt == TTLInt(newTTLStr)
    IN  CASE answer.kind = "notfound" -> DiffOnNotFound(oldTTLInt, newTTLInt)
          [] answer.kind = "apierr"   -> DiffNothing("lookup_error")
          [] OTHER                    -> DiffOnFound(oldTTLInt, newTTLInt)

\* The framework plans a change: the configuration proposes newTTLStr and w,
\* and the rule is called on GetChange = (recorded value, proposed value).
CustomizeDiffBegin(newTTLStr, w) ==
    /\ pc = "idle"
    /\ Enter("CustomizeDiff", "diff")
    /\ configTTL' = newTTLStr
    /\ wait' = w
    /\ ttl0' = stateTTL
    /\ cycle' = IF cycle \in {"created", "refreshed"} THEN cycle ELSE "none"
    /\ UNCHANGED <<remoteVars, dataVars>>

CustomizeDiffBeginStep ==
    \E newTTLStr \in TTLStrings, w \in BOOLEAN : CustomizeDiffBegin(newTTLStr, w)

\* Variant: the rule runs for a resource that has no identifier too.
DiffApplies_Always(theId) == TRUE

\* Lines 55-58: the rule is for resources that have been created.
DiffApplies(theId) == theId /= NoId

\* Lines 55-123: the rule, with its one lookup.
resourceKubernetesJobV1CustomizeDiff(clientOK, answer) ==
    /\ pc = "diff"
    /\ UNCHANGED <<remoteVars, dataVars, configVars, op, waitVars, entryVars>>
    /\ IF ~DiffApplies(id)
       THEN /\ Return("ok")
            /\ UNCHANGED <<calls, diffVars>>
            /\ cycle' = "none"
       ELSE IF ~clientOK
       THEN /\ Return("client_error")
            /\ UNCHANGED <<calls, diffVars>>
            /\ cycle' = "none"
       ELSE IF idParts(id).err
       THEN /\ Return("id_error")
            /\ UNCHANGED <<calls, diffVars>>
            /\ cycle' = "none"
       ELSE LET dec == DiffDecision(stateTTL, configTTL, answer)
            IN  /\ calls' = <<Call("get", answer.kind)>>
                /\ forceNew' = dec.forceNew
                /\ cleared' = dec.cleared
                /\ Return(dec.result)
                /\ cycle' = IF cycle = "refreshed" /\ answer.kind = "notfound"
                            THEN "planned"
                            ELSE IF cycle = "created" THEN "created" ELSE "none"

CustomizeDiffStep ==
    \E clientOK \in BOOLEAN, answer \in PlainAnswers :
        resourceKubernetesJobV1CustomizeDiff(clientOK, answer)

\* --------------------------------------- retryUntilJobV1IsFinished (381-405)

\* Variant: the status of a condition is not looked at.
RECURSIVE ScanConditions_IgnoresStatus(_, _)
ScanConditions_IgnoresStatus(conds, i) ==
    IF i > Len(conds) THEN "retry"
    ELSE IF conds[i].type = "Complete" THEN "nil"
    ELSE IF conds[i].type = "Failed" THEN "failed"
    ELSE ScanConditions_IgnoresStatus(conds, i + 1)

\* Variant: a failed job asks for another attempt.
RECURSIVE ScanConditions_RetriesFailed(_, _)
ScanConditions_RetriesFailed(conds, i) ==
    IF i > Len(conds) THEN "retry"
    ELSE IF conds[i].status = "True" /\ conds[i].type = "Complete" THEN "nil"
    ELSE ScanConditions_RetriesFailed(conds, i + 1)

\* Variant: the last true Complete or Failed condition decides.
RECURSIVE ScanConditions_LastWins(_, _)
ScanConditions_LastWins(conds, i) ==
    IF i > Len(conds) THEN "retry"
    ELSE LET rest == ScanConditions_LastWins(conds, i + 1)
         IN  IF rest /= "retry" THEN rest
             ELSE IF conds[i].status = "True" /\ conds[i].type = "Complete" THEN "nil"
             ELSE IF conds[i].status = "True" /\ conds[i].type = "Failed" THEN "failed"
             ELSE "retry"

\* The loop over job.Status.Conditions from position i: the first condition
\* with a true status and type Complete or Failed decides.
RECURSIVE ScanConditions(_, _)
ScanConditions(conds, i) ==
    IF i > Len(conds) THEN "retry"
    ELSE IF conds[i].status = "True" /\ conds[i].type = "Complete" THEN "nil"
    ELSE IF conds[i].status = "True" /\ conds[i].type = "Failed" THEN "failed"
    ELSE ScanConditions(conds, i + 1)

\* Variant: "not found" is an error like any other.
retryUntilJobV1IsFinished_NotFoundFatal(answer) ==
    CASE answer.kind = "obj" -> ScanConditions(answer.conds, 1)
      [] OTHER               -> "error"

\* One call of the retry function: nil, a retryable error ("retry") or a
\* non-retryable one ("failed": the job failed, "error": the fetch failed).
retryUntilJobV1IsFinished(answer) ==
    CASE answer.kind = "notfound" -> "nil"
      [] answer.kind = "apierr"   -> "error"
      [] OTHER                    -> ScanConditions(answer.conds, 1)

\* The cycle at the return of a handler that leaves newId and ttl recorded.
CycleAtReturn(newId, ttl) ==
    IF op = "Create" /\ newId /= NoId /\ GetOk(ttl) THEN "created" ELSE "none"

\* retry.RetryContext around the poller, one attempt: Create returns after a
\* successful wait (178-185), Update goes on to Read (307-314).
PollFetch(answer) ==
    /\ pc = "poll"
    /\ attempts < MaxPolls
    /\ attempts' = attempts + 1
    /\ lastGet' = answer
    /\ calls' = Append(calls, Call("get", answer.kind))
    /\ UNCHANGED <<remoteVars, dataVars, configVars, diffVars, op, entryVars>>
    /\ LET rerr == retryUntilJobV1IsFinished(answer)
       IN  CASE rerr = "nil" ->
                  /\ pollOutcome' = "success"
                  /\ IF op = "Create"
                     THEN /\ Return("ok")
                          /\ cycle' = CycleAtReturn(id, stateTTL)
                     ELSE /\ pc' = "read_exists"
                          /\ UNCHANGED <<result, cycle>>
             [] rerr = "failed" ->
                  /\ pollOutcome' = "failed"
                  /\ Return("job_failed")
                  /\ cycle' = CycleAtReturn(id, stateTTL)
             [] rerr = "error" ->
                  /\ pollOutcome' = "fetch_error"
                  /\ Return("poll_error")
                  /\ cycle' = CycleAtReturn(id, stateTTL)
             [] OTHER ->
                  /\ pollOutcome' = "none"
                  /\ UNCHANGED <<pc, result, cycle>>

PollFetchStep == \E answer \in GetAnswers : PollFetch(answer)

\* Variant: a wait that times out is taken for a finished one.
PollTimeout_Succeeds ==
    /\ pc = "poll"
    /\ attempts >= 1
    /\ pollOutcome' = "timeout"
    /\ IF op = "Create"
       THEN Return("ok") /\ cycle' = CycleAtReturn(id, stateTTL)
       ELSE pc' = "read_exists" /\ UNCHANGED <<result, cycle>>
    /\ UNCHANGED <<remoteVars, dataVars, configVars, diffVars, op, calls, attempts,
                   lastGet, entryVars>>

\* Variant: a wait that timed out undoes the create.
PollTimeout_RollsBack ==
    /\ pc = "poll"
    /\ attempts >= 1
    /\ pollOutcome' = "timeout"
    /\ Return("timeout")
    /\ id' = IF op = "Create" THEN NoId ELSE id
    /\ cycle' = "none"
    /\ UNCHANGED <<remoteVars, stateTTL, configVars, diffVars, op, calls, attempts,
                   lastGet, entryVars>>

\* The deadline of the operation passes while the last attempt asked for
\* another one: RetryContext returns an error.
PollTimeout ==
    /\ pc = "poll"
    /\ attempts >= 1
    /\ pollOutcome' = "timeout"
    /\ Return("timeout")
    /\ cycle' = CycleAtReturn(id, stateTTL)
    /\ UNCHANGED <<remoteVars, dataVars, configVars, diffVars, op, calls, attempts,
                   lastGet, entryVars>>

\* ---------------------------------------- resourceKubernetesJobV1Create (147-188)

\* Variant: Create never waits for the job.
CreateThen_NeverWaits(w) == "read_exists"

\* Lines 178-187: with wait_for_completion the poller runs and Create ends
\* with it; without it Create goes on to Read.
CreateThen(w) == IF w THEN "poll" ELSE "read_exists"

\* The framework calls Create for a resource with no identifier; the resource
\* data holds the planned configuration.
CreateBegin ==
    /\ pc = "idle"
    /\ id = NoId
    /\ Enter("Create", "create_call")
    /\ stateTTL' = configTTL
    /\ ttl0' = configTTL
    /\ cycle' = "none"
    /\ UNCHANGED <<remoteVars, id, configVars>>

\* Lines 148-187 up to the first fetch: client, expandJobV1Spec, the create
\* request, SetId, idParts, and the choice between the poller and Read.
CreateCall(clientOK, expandOK, createOK) ==
    /\ pc = "create_call"
    /\ createOK => ~jobExists
    /\ UNCHANGED <<stateTTL, configVars, diffVars, op, waitVars, entryVars>>
    /\ IF ~clientOK
       THEN /\ Return("client_error")
            /\ cycle' = "none"
            /\ UNCHANGED <<remoteVars, id, calls>>
       ELSE IF ~expandOK
       THEN /\ Return("expand_error")
            /\ cycle' = "none"
            /\ UNCHANGED <<remoteVars, id, calls>>
       ELSE IF ~createOK
       THEN /\ Return("create_error")
            /\ cycle' = "none"
            /\ calls' = Append(calls, Call("create", "apierr"))
            /\ UNCHANGED <<remoteVars, id>>
       ELSE /\ jobExists' = TRUE
            /\ calls' = Append(calls, Call("create", "obj"))
            /\ id' = buildId(Namespace, JobName)
            /\ IF idParts(buildId(Namespace, JobName)).err
               THEN /\ Return("id_error")
                    /\ cycle' = CycleAtReturn(buildId(Namespace, JobName), stateTTL)
               ELSE /\ pc' = CreateThen(wait)
                    /\ UNCHANGED <<result, cycle>>

CreateCallStep ==
    \E clientOK \in BOOLEAN, expandOK \in BOOLEAN, createOK \in BOOLEAN :
        CreateCall(clientOK, expandOK, createOK)

\* ------------------------------- resourceKubernetesJobV1Read (190-247), Exists

\* resourceKubernetesJobV1Exists (358-378): exists and err.
resourceKubernetesJobV1Exists(clientOK, answer) ==
    IF ~clientOK THEN [exists |-> FALSE, err |-> "client_error", called |-> FALSE]
    ELSE IF idParts(id).err THEN [exists |-> FALSE, err |-> "id_error", called |-> FALSE]
    ELSE IF answer.kind = "notfound" THEN [exists |-> FALSE, err |-> "nil", called |-> TRUE]
    ELSE IF answer.kind = "apierr" THEN [exists |-> TRUE, err |-> "exists_error", called |-> TRUE]
    ELSE [exists |-> TRUE, err |-> "nil", called |-> TRUE]

\* The framework refreshes a recorded resource.
ReadBegin ==
    /\ pc = "idle"
    /\ id /= NoId
    /\ Enter("Read", "read_exists")
    /\ ttl0' = stateTTL
    /\ cycle' = IF cycle = "created" THEN "reading" ELSE "none"
    /\ UNCHANGED <<remoteVars, dataVars, configVars>>

\* Variant: an expiry of "0" counts as not configured.
ReadAbsent_ZeroIsUnset(ttl) == IF TTLInt(ttl) > 0 THEN id ELSE NoId

\* What Read does when the object does not exist (195-207).
\* Variant: a vanished object is always dropped from the state.
ReadAbsent_AlwaysDrops(ttl) == NoId

ReadAbsent(ttl) == IF GetOk(ttl) THEN id ELSE NoId

\* Lines 191-218: the existence check and what follows it up to the fetch.
\* Read also runs at the end of Create and Update, on their resource data.
ReadExists(clientOK, answer) ==
    /\ pc = "read_exists"
    /\ UNCHANGED <<remoteVars, stateTTL, configVars, diffVars, op, waitVars, entryVars>>
    /\ LET ex == resourceKubernetesJobV1Exists(clientOK, answer)
       IN  /\ calls' = IF ex.called THEN Append(calls, Call("get", answer.kind)) ELSE calls
           /\ IF ex.err /= "nil"
              THEN /\ Return(ex.err)
                   /\ id' = id
                   /\ cycle' = CycleAtReturn(id, stateTTL)
              ELSE IF ~ex.exists
              THEN /\ Return("ok")
                   /\ id' = ReadAbsent(stateTTL)
                   /\ cycle' = IF cycle = "reading" /\ op = "Read" THEN "refreshed"
                               ELSE CycleAtReturn(ReadAbsent(stateTTL), stateTTL)
              ELSE /\ pc' = "read_get"
                   /\ id' = id
                   /\ UNCHANGED <<result, cycle>>

ReadExistsStep ==
    \E clientOK \in BOOLEAN, answer \in PlainAnswers : ReadExists(clientOK, answer)

\* Lines 219-246: the fetch, and the refresh of metadata and spec from it.
ReadGet(answer, jobTTL, flattenOK) ==
    /\ pc = "read_get"
    /\ calls' = Append(calls, Call("get", answer.kind))
    /\ UNCHANGED <<remoteVars, id, configVars, diffVars, op, waitVars, entryVars>>
    /\ IF answer.kind /= "obj"
       THEN /\ Return("read_error")
            /\ stateTTL' = stateTTL
            /\ cycle' = CycleAtReturn(id, stateTTL)
       ELSE IF ~flattenOK
       THEN /\ Return("flatten_error")
            /\ stateTTL' = stateTTL
            /\ cycle' = CycleAtReturn(id, stateTTL)
       ELSE /\ Return("ok")
            /\ stateTTL' = FlattenTTL(jobTTL)
            /\ cycle' = CycleAtReturn(id, FlattenTTL(jobTTL))

ReadGetStep ==
    \E answer \in PlainAnswers, jobTTL \in JobTTLs,
       flattenOK \in BOOLEAN :
        ReadGet(answer, jobTTL, flattenOK)

\* ---------------------------------------- resourceKubernetesJobV1Update (249-315)

\* The framework calls Update on a recorded resource; the resource data holds
\* the planned configuration (d.Get returns the proposed values).
UpdateBegin ==
    /\ pc = "idle"
    /\ id /= NoId
    /\ Enter("Update", "update_get")
    /\ stateTTL' = configTTL
    /\ ttl0' = configTTL
    /\ cycle' = "none"
    /\ UNCHANGED <<remoteVars, id, configVars>>

\* Variant: the guard on the expiry value is strict.
UpdateOnNotFound_StrictGuard(ttlStr) ==
    IF TTLInt(ttlStr) > 0 THEN "ok" ELSE "deleted_error"

\* What Update returns when the object is missing (264-279).
UpdateOnNotFound(ttlStr) ==
    IF TTLInt(ttlStr) >= 0 THEN "ok" ELSE "deleted_error"

\* Lines 250-282: client, idParts and the existence check.
UpdateGet(clientOK, answer) ==
    /\ pc = "update_get"
    /\ UNCHANGED <<remoteVars, dataVars, configVars, diffVars, op, waitVars, entryVars,
                   cycle>>
    /\ IF ~clientOK
       THEN /\ Return("client_error")
            /\ UNCHANGED calls
       ELSE IF idParts(id).err
       THEN /\ Return("id_error")
            /\ UNCHANGED calls
       ELSE /\ calls' = Append(calls, Call("get", answer.kind))
            /\ CASE answer.kind = "notfound" -> Return(UpdateOnNotFound(stateTTL))
                 [] answer.kind = "apierr"   -> Return("get_error")
                 [] OTHER -> pc' = "update_patch" /\ UNCHANGED result

UpdateGetStep ==
    \E clientOK \in BOOLEAN, answer \in PlainAnswers :
        UpdateGet(clientOK, answer)

\* Variant: Update waits for the job whatever wait_for_completion says.
UpdateThen_AlwaysWaits(w) == "poll"

\* Lines 307-314: with wait_for_completion the poller runs before Read.
UpdateThen(w) == IF w THEN "poll" ELSE "read_exists"

\* Lines 284-314 up to the first fetch: the patch operations, the patch
\* request, SetId, and the choice between the poller and Read.
UpdatePatch(marshalOK, patchOK) ==
    /\ pc = "update_patch"
    /\ patchOK => jobExists
    /\ UNCHANGED <<remoteVars, stateTTL, configVars, diffVars, op, waitVars, entryVars,
                   cycle>>
    /\ IF ~marshalOK
       THEN /\ Return("marshal_error")
            /\ UNCHANGED <<id, calls>>
       ELSE IF ~patchOK
       THEN /\ Return("patch_error")
            /\ calls' = Append(calls, Call("patch", "apierr"))
            /\ UNCHANGED id
       ELSE /\ calls' = Append(calls, Call("patch", "obj"))
            /\ id' = buildId(Namespace, JobName)
            /\ pc' = UpdateThen(wait)
            /\ UNCHANGED result

UpdatePatchStep ==
    \E marshalOK \in BOOLEAN, patchOK \in BOOLEAN : UpdatePatch(marshalOK, patchOK)

\* ---------------------------------------- resourceKubernetesJobV1Delete (316-356)

DeleteBegin ==
    /\ pc = "idle"
    /\ id /= NoId
    /\ Enter("Delete", "delete_call")
    /\ ttl0' = stateTTL
    /\ cycle' = IF cycle \in {"absent_once", "absent_twice"} THEN cycle ELSE "none"
    /\ UNCHANGED <<remoteVars, dataVars, configVars>>

\* Variant: a delete request answered "not found" is an error like any other.
DeleteRefused_NotFoundFatal(kind) == "delete_error"

\* What Delete returns when the delete request fails (329-334).
DeleteRefused(kind) == IF kind = "notfound" THEN "ok" ELSE "delete_error"

\* Lines 317-334: client, idParts and the delete request.  An accepted delete
\* removes the object at once (gone) or leaves it to be removed later.
DeleteCall(clientOK, deleteOK, gone) ==
    /\ pc = "delete_call"
    /\ deleteOK => jobExists
    /\ UNCHANGED <<dataVars, configVars, diffVars, op, waitVars, entryVars>>
    /\ IF ~clientOK
       THEN /\ Return("client_error")
            /\ cycle' = "none"
            /\ UNCHANGED <<remoteVars, calls>>
       ELSE IF idParts(id).err
       THEN /\ Return("id_error")
            /\ cycle' = "none"
            /\ UNCHANGED <<remoteVars, calls>>
       ELSE IF deleteOK
       THEN /\ calls' = Append(calls, Call("delete", "obj"))
            /\ jobExists' = ~gone
            /\ pc' = "delete_poll"
            /\ cycle' = "none"
            /\ UNCHANGED result
       ELSE /\ UNCHANGED remoteVars
            /\ \/ /\ ~jobExists
                  /\ calls' = Append(calls, Call("delete", "notfound"))
                  /\ Return(DeleteRefused("notfound"))
                  /\ cycle' = IF DeleteRefused("notfound") /= "ok" THEN "none"
                              ELSE IF cycle = "none" THEN "absent_once"
                              ELSE "absent_twice"
               \/ /\ calls' = Append(calls, Call("delete", "apierr"))
                  /\ Return(DeleteRefused("apierr"))
                  /\ cycle' = "none"

DeleteCallStep ==
    \E clientOK \in BOOLEAN, deleteOK \in BOOLEAN, gone \in BOOLEAN :
        DeleteCall(clientOK, deleteOK, gone)

\* Lines 336-355: one attempt of the confirmation loop.
DeletePoll(answer) ==
    /\ pc = "delete_poll"
    /\ attempts < MaxPolls
    /\ attempts' = attempts + 1
    /\ lastGet' = answer
    /\ calls' = Append(calls, Call("get", answer.kind))
    /\ UNCHANGED <<remoteVars, stateTTL, configVars, diffVars, op, entryVars, cycle>>
    /\ CASE answer.kind = "notfound" ->
              /\ pollOutcome' = "success"
              /\ id' = NoId
              /\ Return("ok")
         [] answer.kind = "apierr" ->
              /\ pollOutcome' = "fetch_error"
              /\ id' = id
              /\ Return("poll_error")
         [] OTHER ->
              /\ pollOutcome' = "none"
              /\ UNCHANGED <<id, pc, result>>

DeletePollStep ==
    \E answer \in PlainAnswers : DeletePoll(answer)

\* Variant: a delete that timed out counts as done.
DeleteTimeout_ClearsId ==
    /\ pc = "delete_poll"
    /\ attempts >= 1
    /\ pollOutcome' = "timeout"
    /\ id' = NoId
    /\ Return("ok")
    /\ UNCHANGED <<remoteVars, stateTTL, configVars, diffVars, op, calls, attempts,
                   lastGet, entryVars, cycle>>

\* The delete timeout passes while the object still exists.
DeleteTimeout ==
    /\ pc = "delete_poll"
    /\ attempts >= 1
    /\ pollOutcome' = "timeout"
    /\ Return("timeout")
    /\ UNCHANGED <<remoteVars, dataVars, configVars, diffVars, op, calls, attempts,
                   lastGet, entryVars, cycle>>

\* ------------------------------------------------------------------ import

\* schema.ImportStatePassthroughContext (34-36): the given identifier is
\* recorded as it is, with nothing else in the state.
Import(newId) ==
    /\ pc = "idle"
    /\ id = NoId
    /\ pc' = "idle"
    /\ op' = "Import"
    /\ result' = "ok"
    /\ calls' = <<>>
    /\ UNCHANGED diffVars
    /\ attempts' = 0
    /\ lastGet' = NoAnswer
    /\ pollOutcome' = "none"
    /\ id0' = id
    /\ id' = newId
    /\ stateTTL' = <<>>
    /\ ttl0' = <<>>
    /\ cycle' = "none"
    /\ UNCHANGED <<remoteVars, configVars>>

ImportStep == \E newId \in ImportIds : Import(newId)

\* ------------------------------------------------------- the remote store

\* The store removes the Job by itself (ttl_seconds_after_finished elapsed
\* after it finished, or a deletion it had accepted completes) at any moment,
\* also between two calls of a handler.
SelfExpire ==
    /\ jobExists
    /\ jobExists' = FALSE
    /\ UNCHANGED <<dataVars, configVars, diffVars, pc, op, result, calls, waitVars,
                   entryVars, cycle>>

Next ==
    \/ CustomizeDiffBeginStep
    \/ CustomizeDiffStep
    \/ CreateBegin
    \/ CreateCallStep
    \/ PollFetchStep
    \/ PollTimeout
    \/ ReadBegin
    \/ ReadExistsStep
    \/ ReadGetStep
    \/ UpdateBegin
    \/ UpdateGetStep
    \/ UpdatePatchStep
    \/ DeleteBegin
    \/ DeleteCallStep
    \/ DeletePollStep
    \/ DeleteTimeout
    \/ ImportStep
    \/ SelfExpire

Spec == Init /\ [][Next]_vars

\* The wait is an attempt loop under a wall-clock deadline: an attempt that is
\* due is made, and the deadline passes.
FairSpec ==
    /\ Spec
    /\ WF_vars(PollFetchStep)
    /\ WF_vars(PollTimeout)
    /\ WF_vars(DeletePollStep)
    /\ WF_vars(DeleteTimeout)

\* ================================================================= claims

\* The diff rule has just run and its lookup was answered with this kind.
DiffRan(kind) == op = "CustomizeDiff" /\ pc = "idle" /\ calls = <<Call("get", kind)>>

recordedTTL == TTLInt(stateTTL)
proposedTTL == TTLInt(configTTL)

\* C1 as stated: identifier recorded, lookup "not found", recordedTTL = proposedTTL
\* after parsing: the rule clears "spec" and "metadata", forces nothing and
\* returns no error.
C1_AsStated ==
    (DiffRan("notfound") /\ recordedTTL = proposedTTL)
        => (cleared = {"spec", "metadata"} /\ forceNew = {} /\ result = "ok")

\* C1 as amended: the same for recordedTTL = proposedTTL >= 0; when the equal values
\* are negative the rule clears nothing, forces nothing and returns no error.
C1_SuppressWhenUnchanged ==
    (DiffRan("notfound") /\ recordedTTL = proposedTTL)
        => /\ forceNew = {}
           /\ result = "ok"
           /\ cleared = IF recordedTTL >= 0 THEN {"spec", "metadata"} ELSE {}

C1_Witness ==
    /\ DiffRan("notfound")
    /\ recordedTTL = proposedTTL
    /\ recordedTTL = 30
    /\ cleared = {"spec", "metadata"}

\* C2 as stated: identifier recorded, lookup "not found", recordedTTL /= proposedTTL
\* after parsing: the rule forces recreation on the expiry field, clears
\* nothing and returns no error.
C2_AsStated ==
    (DiffRan("notfound") /\ recordedTTL /= proposedTTL)
        => (forceNew = {TTLField} /\ cleared = {} /\ result = "ok")

\* C2 as amended: the same for recordedTTL >= 0; when recordedTTL is negative the rule
\* forces nothing, clears nothing and returns no error.
C2_ForceWhenChanged ==
    (DiffRan("notfound") /\ recordedTTL /= proposedTTL)
        => /\ cleared = {}
           /\ result = "ok"
           /\ forceNew = IF recordedTTL >= 0 THEN {TTLField} ELSE {}

C2_Witness ==
    /\ DiffRan("notfound")
    /\ recordedTTL = 30
    /\ proposedTTL = 0
    /\ forceNew = {TTLField}

\* C3: identifier recorded, lookup succeeds: the rule forces recreation on the
\* expiry field iff recordedTTL /= proposedTTL, never clears anything, and returns no
\* error.
C3_FoundForcesOnlyOnChange ==
    DiffRan("obj")
        => /\ result = "ok"
           /\ cleared = {}
           /\ forceNew = IF recordedTTL /= proposedTTL THEN {TTLField} ELSE {}

C3_Witness ==
    /\ DiffRan("obj")
    /\ recordedTTL = 0
    /\ proposedTTL = 30
    /\ forceNew = {TTLField}

\* C4 as stated: after a create with an expiry value configured, a removal
\* by the store and a refresh that found the object gone, the identifier is
\* still recorded; the diff rule that follows forces recreation iff the parsed
\* expiry value changed, and with an unchanged value it clears "spec" and
\* "metadata".
C4_AsStated ==
    /\ cycle = "refreshed" => (id = JobId /\ id = id0 /\ (op = "Read" => result = "ok"))
    /\ cycle = "planned"
         => /\ result = "ok"
            /\ id = JobId
            /\ forceNew = IF recordedTTL /= proposedTTL THEN {TTLField} ELSE {}
            /\ recordedTTL = proposedTTL => cleared = {"spec", "metadata"}

\* C4 as amended: the same when the recorded expiry value is not negative;
\* with a negative recorded value the identifier is kept as well, and the
\* diff rule forces nothing and clears nothing.
C4_SelfExpiryInvisible ==
    /\ cycle = "refreshed" => (id = JobId /\ id = id0 /\ (op = "Read" => result = "ok"))
    /\ cycle = "planned"
         => /\ result = "ok"
            /\ id = JobId
            /\ recordedTTL >= 0
                 => /\ forceNew = IF recordedTTL /= proposedTTL THEN {TTLField} ELSE {}
                    /\ cleared = IF recordedTTL = proposedTTL THEN {"spec", "metadata"} ELSE {}
            /\ recordedTTL < 0 => (forceNew = {} /\ cleared = {})

C4_Witness ==
    /\ cycle = "planned"
    /\ stateTTL = <<"3", "0">>
    /\ configTTL = <<"3", "0">>
    /\ cleared = {"spec", "metadata"}
    /\ forceNew = {}

\* The true conditions of type Complete or Failed of a fetched object.
TrueTerminals(conds) ==
    {i \in 1..Len(conds) :
        conds[i].status = "True" /\ conds[i].type \in {"Complete", "Failed"}}

HasTrue(conds, type) ==
    \E i \in 1..Len(conds) : conds[i].status = "True" /\ conds[i].type = type

\* The type of the first of them, "none" when there is none.
Deciding(conds) ==
    IF TrueTerminals(conds) = {} THEN "none"
    ELSE conds[CHOOSE i \in TrueTerminals(conds) :
                   \A j \in TrueTerminals(conds) : i <= j].type

\* The completion poller has fetched at least once in this handler.
Polled == op \in {"Create", "Update"} /\ attempts >= 1

\* Create returns straight after a successful wait: its remote calls are the
\* create request and the fetches of the wait, each but the last answered
\* with an object.
CreateStopsAfterWait ==
    (op = "Create" /\ pollOutcome = "success")
        => /\ pc = "idle"
           /\ result = "ok"
           /\ Len(calls) = 1 + attempts
           /\ calls[1] = Call("create", "obj")
           /\ \A i \in 2..attempts : calls[i] = Call("get", "obj")
           /\ calls[1 + attempts] = Call("get", lastGet.kind)

\* C5 as stated: a fetch that returns an object with a true Complete
\* condition ends the poller with success at once and no further fetch is
\* made; Create then returns success, after exactly two fetches when this was
\* the second one.
C5_AsStated ==
    /\ (Polled /\ lastGet.kind = "obj" /\ HasTrue(lastGet.conds, "Complete"))
          => (pollOutcome = "success" /\ pc /= "poll")
    /\ CreateStopsAfterWait

\* C5 as amended: the same when the true Complete condition comes before any
\* true Failed condition of the fetched object.
C5_CompleteEndsPoll ==
    /\ (Polled /\ lastGet.kind = "obj" /\ Deciding(lastGet.conds) = "Complete")
          => (pollOutcome = "success" /\ pc /= "poll")
    /\ CreateStopsAfterWait

C5_Witness ==
    /\ op = "Create"
    /\ pc = "idle"
    /\ attempts = 2
    /\ lastGet.kind = "obj"
    /\ Deciding(lastGet.conds) = "Complete"
    /\ result = "ok"
    /\ calls = <<Call("create", "obj"), Call("get", "obj"), Call("get", "obj")>>

\* C6 as stated: a fetch that returns an object with a true Failed condition
\* ends the poller with the non-retryable "failed" error: the handler returns
\* it, no further fetch is made and success is not reported.
C6_AsStated ==
    (Polled /\ lastGet.kind = "obj" /\ HasTrue(lastGet.conds, "Failed"))
        => /\ pollOutcome = "failed"
           /\ pc = "idle"
           /\ result = "job_failed"

\* C6 as amended: the same when the true Failed condition comes before any
\* true Complete condition of the fetched object.
C6_FailedEndsPoll ==
    (Polled /\ lastGet.kind = "obj" /\ Deciding(lastGet.conds) = "Failed")
        => /\ pollOutcome = "failed"
           /\ pc = "idle"
           /\ result = "job_failed"

C6_Witness ==
    /\ Polled
    /\ attempts = 2
    /\ lastGet.kind = "obj"
    /\ Deciding(lastGet.conds) = "Failed"
    /\ result = "job_failed"

\* C7: a "not found" answer to any attempt of the poller ends it with success
\* and no error (Create returns success); any other fetch error ends it with
\* a non-retryable error that the handler returns.
C7_NotFoundEndsPoll ==
    /\ (Polled /\ lastGet.kind = "notfound")
          => /\ pollOutcome = "success"
             /\ pc /= "poll"
             /\ op = "Create" => (pc = "idle" /\ result = "ok")
    /\ (Polled /\ lastGet.kind = "apierr")
          => /\ pollOutcome = "fetch_error"
             /\ pc = "idle"
             /\ result = "poll_error"

C7_Witness ==
    /\ op = "Create"
    /\ attempts = MaxPolls
    /\ lastGet.kind = "notfound"
    /\ pollOutcome = "success"
    /\ result = "ok"

\* C8: the poller goes on only while every fetch returned an object without a
\* true Complete or Failed condition; a wait that times out makes the handler
\* return the timeout error, never success; and every wait ends.
C8_PollerTerminates ==
    /\ []((pc = "poll" /\ attempts >= 1)
            => (lastGet.kind = "obj" /\ Deciding(lastGet.conds) = "none"))
    /\ []((op \in {"Create", "Update"} /\ pollOutcome = "timeout")
            => (pc = "idle" /\ result = "timeout"))
    /\ (pc = "poll") ~> (pc /= "poll")

C8_Witness ==
    /\ op = "Create"
    /\ pollOutcome = "timeout"
    /\ attempts >= 2
    /\ result = "timeout"

\* Update's existence check was answered with this kind.
UpdateChecked(kind) ==
    op = "Update" /\ calls /= <<>> /\ calls[1] = Call("get", kind)

\* C9: Update whose existence check answers "not found" returns at once, with
\* no other remote call and the identifier unchanged: success when the expiry
\* value it reads is not negative, the "deleted" error otherwise.  Another
\* error of the existence check is returned as an error, with no other call.
C9_UpdateOnMissingObject ==
    /\ UpdateChecked("notfound")
          => /\ pc = "idle"
             /\ Len(calls) = 1
             /\ id = id0
             /\ result = IF TTLInt(stateTTL) >= 0 THEN "ok" ELSE "deleted_error"
    /\ UpdateChecked("apierr")
          => /\ pc = "idle"
             /\ Len(calls) = 1
             /\ id = id0
             /\ result = "get_error"

C9_Witness ==
    /\ UpdateChecked("notfound")
    /\ stateTTL = <<"3", "0">>
    /\ result = "ok"
    /\ calls = <<Call("get", "notfound")>>
    /\ id = JobId

\* Read (called by the framework, or at the end of Create or Update) has
\* returned after its existence check, the first call it makes, was answered
\* "not found".
ReadFoundAbsent ==
    /\ pc = "idle"
    /\ calls /= <<>>
    /\ calls[Len(calls)] = Call("get", "notfound")
    /\ \/ op = "Read" /\ Len(calls) = 1
       \/ op = "Create" /\ attempts = 0 /\ Len(calls) = 2
       \/ op = "Update" /\ Len(calls) = attempts + 3

\* C10: Read on an object that does not exist returns success; with an expiry
\* value present in the resource data it leaves identifier and expiry value
\* as they were, without one it clears the identifier.
C10_ReadOnMissingObject ==
    ReadFoundAbsent
        => /\ result = "ok"
           /\ stateTTL = ttl0
           /\ GetOk(stateTTL) => (id = JobId /\ (op = "Read" => id = id0))
           /\ ~GetOk(stateTTL) => id = NoId

C10_Witness ==
    /\ ReadFoundAbsent
    /\ op = "Read"
    /\ stateTTL = <<"0">>
    /\ id = JobId
    /\ result = "ok"

\* Delete's request was answered with this kind.
DeleteAnswered(kind) ==
    op = "Delete" /\ calls /= <<>> /\ calls[1] = Call("delete", kind)

\* C11: a Delete whose request the store answers with "not found" returns
\* success at once, without any confirmation fetch and leaving the recorded
\* data as it was; so does the Delete that follows it.
C11_DeleteOfAbsentObject ==
    /\ DeleteAnswered("notfound")
          => /\ pc = "idle"
             /\ result = "ok"
             /\ calls = <<Call("delete", "notfound")>>
             /\ attempts = 0
             /\ id = id0
    /\ cycle \in {"absent_once", "absent_twice"}
          => (~jobExists /\ (pc = "idle" => result = "ok"))

C11_Witness ==
    /\ cycle = "absent_twice"
    /\ pc = "idle"
    /\ DeleteAnswered("notfound")
    /\ result = "ok"

\* The shape of Delete's confirmation loop: while it runs every fetch so far
\* found the object; once it is over, it ended in one of three ways.
DeleteLoopOutcomes ==
    DeleteAnswered("obj") =>
        /\ pc \in {"delete_poll", "idle"}
        /\ Len(calls) = attempts + 1
        /\ \A i \in 2..(Len(calls) - 1) : calls[i] = Call("get", "obj")
        /\ pc = "delete_poll" =>
              /\ result = "running"
              /\ pollOutcome = "none"
              /\ id = id0
              /\ attempts >= 1 => lastGet.kind = "obj"
        /\ pc = "idle" =>
              /\ attempts >= 1
              /\ pollOutcome \in {"success", "fetch_error", "timeout"}
              /\ pollOutcome = "success" =>
                    (lastGet.kind = "notfound" /\ result = "ok" /\ id = NoId)
              /\ pollOutcome = "fetch_error" =>
                    (lastGet.kind = "apierr" /\ result = "poll_error" /\ id = id0)
              /\ pollOutcome = "timeout" =>
                    (lastGet.kind = "obj" /\ result = "timeout" /\ id = id0)

\* C12: once the delete request is accepted, Delete fetches the object as long
\* as it is found and always comes to an end, in one of three ways: a fetch
\* answers "not found" (success, identifier cleared), a fetch fails otherwise
\* (that error, identifier kept), or the deadline passes (timeout error,
\* identifier kept).
C12_DeleteLoopTerminates ==
    /\ []DeleteLoopOutcomes
    /\ (pc = "delete_poll") ~> (pc = "idle" /\ op = "Delete")

C12_Witness ==
    /\ DeleteAnswered("obj")
    /\ pc = "idle"
    /\ pollOutcome = "timeout"
    /\ attempts >= 2
    /\ id = JobId

\* A step records an identifier where there was none, or another one.
IdWritten == id' /= id /\ id' /= NoId

\* A step removes the recorded identifier.
IdCleared == id' /= id /\ id' = NoId

\* The step is the remote create answering with the created object.
AfterRemoteCreate ==
    op' = "Create" /\ calls' = <<Call("create", "obj")>>

\* The step is Delete's confirmation fetch answering "not found".
AfterConfirmedDelete ==
    /\ op' = "Delete"
    /\ calls'[1] = Call("delete", "obj")
    /\ calls' = Append(calls, Call("get", "notfound"))

\* The step is the existence check of Read answering "not found" while no
\* expiry value is recorded.
AfterAbsentUnconfigured ==
    /\ pc = "read_exists"
    /\ calls' = Append(calls, Call("get", "notfound"))
    /\ ~GetOk(stateTTL)

\* The step ends a create, patch or delete in failure.
WriteFailed ==
    \/ result' \in {"create_error", "patch_error", "delete_error"}
    \/ op' = "Delete" /\ result' \in {"poll_error", "timeout"}

\* C13 as stated: over the four operations the identifier is written only
\* after a successful remote create and cleared only after a confirmed
\* delete, and a failed create, patch or delete leaves it as it was.
C13_AsStated ==
    [][/\ IdWritten => (AfterRemoteCreate \/ op' = "Import")
       /\ IdCleared => AfterConfirmedDelete
       /\ WriteFailed => id' = id]_vars

\* C13: the identifier is written only after a successful remote create; it
\* is cleared only after a confirmed delete, or by Read when its existence
\* check finds the object absent and no expiry value is recorded; a failed
\* create, patch or delete leaves it as it was.
C13_IdentifierDiscipline ==
    [][/\ IdWritten => (AfterRemoteCreate \/ op' = "Import")
       /\ IdCleared => (AfterConfirmedDelete \/ AfterAbsentUnconfigured)
       /\ WriteFailed => id' = id]_vars

C13_Witness ==
    /\ op = "Read"
    /\ pc = "idle"
    /\ calls = <<Call("get", "notfound")>>
    /\ id0 = JobId
    /\ id = NoId
    /\ ~GetOk(stateTTL)

\* C14: a Read whose last remote call was answered "not found", whether that
\* call is the existence check or the fetch that follows it, returns no error.
C14_ReadSurvivesDisappearance ==
    (/\ op = "Read"
     /\ pc = "idle"
     /\ calls /= <<>>
     /\ calls[Len(calls)] = Call("get", "notfound"))
        => result = "ok"

\* C15: for a resource with no identifier the diff rule returns without an
\* error, without a remote call, and with nothing forced or cleared, whatever
\* the recorded and the proposed expiry values are.
C15_DiffWithoutIdentifier ==
    (op = "CustomizeDiff" /\ pc = "idle" /\ id = NoId)
        => /\ result = "ok"
           /\ calls = <<>>
           /\ forceNew = {}
           /\ cleared = {}

C15_Witness ==
    /\ op = "CustomizeDiff"
    /\ pc = "idle"
    /\ id = NoId
    /\ result = "ok"
    /\ recordedTTL = 30
    /\ proposedTTL = 0

\* Create's remote create call was answered with this kind.
CreateRan(kind) ==
    op = "Create" /\ calls /= <<>> /\ calls[1] = Call("create", kind)

\* What a handler that ends in Read can return from there.
ReadResults ==
    {"ok", "client_error", "id_error", "exists_error", "read_error", "flatten_error"}

\* C16: a failed remote create ends Create with an error, no identifier, no
\* poll and no read. After a successful one, with wait_for_completion the
\* poller runs and Create returns what the poller returns, never reading;
\* without it Create never polls and goes on to Read.
C16_CreateOrchestration ==
    /\ CreateRan("apierr") =>
          /\ pc = "idle"
          /\ result = "create_error"
          /\ id = NoId
          /\ Len(calls) = 1
          /\ attempts = 0
    /\ (CreateRan("obj") /\ wait) =>
          /\ pc \in {"poll", "idle"}
          /\ Len(calls) = attempts + 1
          /\ \A i \in 2..Len(calls) : calls[i].call = "get"
          /\ pc = "idle" => (attempts >= 1 /\ pollOutcome /= "none")
          /\ pollOutcome = "success" => result = "ok"
          /\ pollOutcome = "failed" => result = "job_failed"
          /\ pollOutcome = "fetch_error" => result = "poll_error"
          /\ pollOutcome = "timeout" => result = "timeout"
    /\ (CreateRan("obj") /\ ~wait) =>
          /\ pc \in {"read_exists", "read_get", "idle"}
          /\ attempts = 0
          /\ pollOutcome = "none"
          /\ Len(calls) <= 3
          /\ \A i \in 2..Len(calls) : calls[i].call = "get"
          /\ pc = "idle" => result \in ReadResults

C16_Witness ==
    /\ CreateRan("obj")
    /\ ~wait
    /\ pc = "idle"
    /\ result = "ok"
    /\ Len(calls) = 3
    /\ id = JobId

\* Update's patch request was answered with this kind.
Patched(kind) ==
    UpdateChecked("obj") /\ Len(calls) >= 2 /\ calls[2] = Call("patch", kind)

\* What C17 says of Update apart from the number of patch requests: a patch
\* request comes second, after a successful check; a failed one ends Update
\* with the identifier as it was and no poll or read; the poller runs only
\* after a successful patch with wait_for_completion, and its error is
\* Update's.
UpdateOrder ==
    /\ op = "Update" =>
          \A i \in 1..Len(calls) :
              calls[i].call = "patch" => (i = 2 /\ calls[1] = Call("get", "obj"))
    /\ Patched("apierr") =>
          /\ pc = "idle"
          /\ result = "patch_error"
          /\ id = id0
          /\ Len(calls) = 2
          /\ attempts = 0
    /\ (op = "Update" /\ attempts >= 1) => (wait /\ Patched("obj"))
    /\ (Patched("obj") /\ wait /\ pc /= "poll") => attempts >= 1
    /\ (op = "Update" /\ pollOutcome \in {"failed", "fetch_error", "timeout"}) =>
          /\ pc = "idle"
          /\ Len(calls) = attempts + 2
          /\ pollOutcome = "failed" => result = "job_failed"
          /\ pollOutcome = "fetch_error" => result = "poll_error"
          /\ pollOutcome = "timeout" => result = "timeout"

\* Update returned without a patch request because the patch could not be
\* built.
PatchNotBuilt ==
    /\ result = "marshal_error"
    /\ Len(calls) = 1
    /\ id = id0
    /\ attempts = 0

\* C17 as stated: an Update whose existence check succeeded issues exactly
\* one patch request, and the order of UpdateOrder holds.
C17_AsStated ==
    /\ UpdateOrder
    /\ (UpdateChecked("obj") /\ pc = "idle") =>
          (Len(calls) >= 2 /\ calls[2].call = "patch")

\* C17: an Update whose existence check succeeded issues exactly one patch
\* request unless building the patch fails, and then it returns that error
\* with no request made; the order of UpdateOrder holds.
C17_UpdateOrchestration ==
    /\ UpdateOrder
    /\ (UpdateChecked("obj") /\ pc = "idle") =>
          \/ Len(calls) >= 2 /\ calls[2].call = "patch"
          \/ PatchNotBuilt

C17_Witness ==
    /\ Patched("obj")
    /\ wait
    /\ pc = "idle"
    /\ pollOutcome = "failed"
    /\ result = "job_failed"
    /\ Len(calls) = 4

\* The conditions of the object the poller fetched last.
scanned == lastGet.conds

\* C18: of the conditions of a fetched object the poller looks only at those
\* with a true status and a type of Complete or Failed, in the order
\* returned: with none of them the fetch does not end the poll; otherwise the
\* first of them decides, Complete for success and Failed for the fatal
\* error.
C18_ConditionScan ==
    (Polled /\ lastGet.kind = "obj") =>
        /\ TrueTerminals(scanned) = {} =>
              /\ pollOutcome \in {"none", "timeout"}
              /\ pollOutcome = "none" => pc = "poll"
        /\ \A i \in TrueTerminals(scanned) :
              (\A j \in TrueTerminals(scanned) : i <= j) =>
                  /\ scanned[i].type = "Complete" => pollOutcome = "success"
                  /\ scanned[i].type = "Failed" =>
                        (pollOutcome = "failed" /\ result = "job_failed")

C18_Witness ==
    /\ Polled
    /\ lastGet.kind = "obj"
    /\ Len(scanned) = 2
    /\ scanned[1] = [type |-> "Failed", status |-> "True"]
    /\ scanned[2] = [type |-> "Complete", status |-> "True"]
    /\ pollOutcome = "failed"

\* The expiry value Update reads is absent or is not a number.
NoExpiryPolicy == stateTTL = NoTTL \/ Atoi(stateTTL).err

\* C19: an Update whose existence check answers "not found" while the expiry
\* value is absent or does not parse returns success and changes nothing; the
\* "deleted" error is returned exactly when the value parses to a negative
\* number.  Read in the same situation, with no expiry value, clears the
\* identifier.
C19_UpdateOnVanishedUnconfigured ==
    /\ UpdateChecked("notfound") =>
          /\ NoExpiryPolicy =>
                /\ pc = "idle"
                /\ result = "ok"
                /\ calls = <<Call("get", "notfound")>>
                /\ id = id0
                /\ stateTTL = ttl0
          /\ result = "deleted_error"
                <=> (~Atoi(stateTTL).err /\ Atoi(stateTTL).val < 0)
    /\ (op = "Read" /\ ReadFoundAbsent /\ ttl0 = NoTTL) =>
          (result = "ok" /\ id = NoId)

C19_Witness ==
    /\ UpdateChecked("notfound")
    /\ stateTTL = <<"a">>
    /\ pc = "idle"
    /\ result = "ok"
    /\ id = JobId

\* Create's wait ended with an error.
CreateWaitFailed ==
    /\ CreateRan("obj")
    /\ pollOutcome \in {"failed", "fetch_error", "timeout"}

\* C20: when the remote create succeeded and the wait ends with an error,
\* Create returns that error with the identifier of the created object still
\* recorded, and has sent no delete request.
C20_FailedWaitKeepsIdentifier ==
    CreateWaitFailed =>
        /\ pc = "idle"
        /\ result \in {"job_failed", "poll_error", "timeout"}
        /\ id = buildId(Namespace, JobName)
        /\ \A i \in 1..Len(calls) : calls[i].call /= "delete"

C20_Witness ==
    /\ CreateWaitFailed
    /\ pollOutcome = "timeout"
    /\ result = "timeout"
    /\ id = JobId
    /\ jobExists

====
